---- MODULE Spec2Model ----
(***************************************************************************)
(* Shape-level and value-level model of the JL-DCF / Conformer saliency    *)
(* network of src/new_networks/conformer.py.                               *)
(*                                                                         *)
(* A tensor is modelled by its shape, a sequence of naturals; the empty    *)
(* sequence Err stands for "the torch call raised".  The lists the encoder *)
(* returns hold records [shape, stage, kind] so that the producer of each  *)
(* entry stays visible.  Python list index j is TLA+ index j + 1.          *)
(***************************************************************************)
EXTENDS Integers, Sequences, FiniteSets, TLC

\* ---------------------------------------------------------------- bounds
MaxBatch == 2
MaxDepth == 12

\* ------------------------------------------------- program constants
image_size == 320
in_chans == 3
patch_size == 16
base_channel == 64
channel_ratio == 4
embed_dim == 384
num_heads == 6
expansion == 4
RefDepth == 12
LdeStage == 4
CoarseStage == 12
GdeGrid == 20
GdeGridMed == 40

\* Image sides offered to forward: the reference side, two other multiples
\* of 32 around it, and the pair 160 / 640 (a 160 x 640 image has as many
\* 16 x 16 patches as a 320 x 320 one).
Sides == {image_size \div 2, image_size - 64, image_size, image_size + 32, 2 * image_size}

ImageShapes == {<<b, in_chans, h, w>> : b \in 1..MaxBatch, h \in Sides, w \in Sides}

Depths == 1..MaxDepth

\* ------------------------------------------------------- torch shapes
Err == <<>>

Max(a, b) == IF a >= b THEN a ELSE b

\* floor((n + 2p - k) / s) + 1 : output side of Conv2d / MaxPool2d / AvgPool2d
ConvOut(n, k, s, p) == (n + 2 * p - k) \div s + 1

Conv2d(t, cin, cout, k, s, p) ==
    IF Len(t) # 4 THEN Err
    ELSE IF t[2] # cin \/ t[3] + 2 * p < k \/ t[4] + 2 * p < k THEN Err
    ELSE <<t[1], cout, ConvOut(t[3], k, s, p), ConvOut(t[4], k, s, p)>>

Pool2d(t, k, s, p) ==
    IF Len(t) # 4 THEN Err
    ELSE IF t[3] + 2 * p < k \/ t[4] + 2 * p < k THEN Err
    ELSE <<t[1], t[2], ConvOut(t[3], k, s, p), ConvOut(t[4], k, s, p)>>

\* (n - 1) s - 2p + (k - 1) + output_padding + 1
ConvTOut(n, k, s, p, op) == (n - 1) * s - 2 * p + (k - 1) + op + 1

ConvTranspose2d(t, cin, cout, k, s, p, op) ==
    IF Len(t) # 4 THEN Err
    ELSE IF t[2] # cin \/ ConvTOut(t[3], k, s, p, op) < 1 \/ ConvTOut(t[4], k, s, p, op) < 1 THEN Err
    ELSE <<t[1], cout, ConvTOut(t[3], k, s, p, op), ConvTOut(t[4], k, s, p, op)>>

\* t.flatten(2).transpose(1, 2) : [B, C, H, W] -> [B, H W, C]
FlattenT(t) ==
    IF Len(t) # 4 THEN Err ELSE <<t[1], t[3] * t[4], t[2]>>

\* torch.cat([a, b], dim=1) of two 3-d tensors
Cat1(a, b) ==
    IF Len(a) # 3 \/ Len(b) # 3 THEN Err
    ELSE IF a[1] # b[1] \/ a[3] # b[3] THEN Err
    ELSE <<a[1], a[2] + b[2], a[3]>>

\* t[:, 0][:, None, :] of a 3-d tensor
ClsSlot(t) ==
    IF Len(t) # 3 THEN Err
    ELSE IF t[2] < 1 THEN Err
    ELSE <<t[1], 1, t[3]>>

\* t[:, 1:].transpose(1, 2) reshaped / unflattened to [B, C, h, w]
TokensToGrid(t, h, w) ==
    IF Len(t) # 3 THEN Err
    ELSE IF t[2] - 1 # h * w \/ h < 1 \/ w < 1 THEN Err
    ELSE <<t[1], t[3], h, w>>

\* broadcasting of an element-wise binary operation (shapes right-aligned)
Pad(t, n) == [d \in 1..n |-> IF d <= n - Len(t) THEN 1 ELSE t[d - (n - Len(t))]]

Broadcast(a, b) ==
    IF a = Err \/ b = Err THEN Err
    ELSE LET n == Max(Len(a), Len(b))
             pa == Pad(a, n)
             pb == Pad(b, n)
         IN IF \A d \in 1..n : pa[d] = pb[d] \/ pa[d] = 1 \/ pb[d] = 1
            THEN [d \in 1..n |-> Max(pa[d], pb[d])]
            ELSE Err

\* a += b : the broadcast result has to have the shape of a
AddInPlace(a, b) ==
    IF Broadcast(a, b) = a THEN a ELSE Err

\* F.interpolate(t, size=(h, w))
Interpolate(t, h, w) ==
    IF Len(t) # 4 THEN Err
    ELSE IF h < 1 \/ w < 1 THEN Err
    ELSE <<t[1], t[2], h, w>>

\* nn.Linear(cin, cout) on the last axis
Linear(t, cin, cout) ==
    IF t = Err THEN Err
    ELSE IF t[Len(t)] # cin THEN Err
    ELSE [d \in 1..Len(t) |-> IF d = Len(t) THEN cout ELSE t[d]]

\* --------------------------------------------------------- sub-modules
None == << -1 >>

\* Attention.forward : x is [B, N, C]; q, k, v are [B, heads, N, C // heads]
Attention(x) ==
    LET qkv == IF Len(x) # 3 THEN Err ELSE Linear(x, embed_dim, embed_dim * 3)
        head == IF qkv = Err THEN Err ELSE <<x[1], num_heads, x[2], x[3] \div num_heads>>
    IN [x |-> IF qkv = Err THEN Err ELSE Linear(x, embed_dim, embed_dim),
        q |-> head, k |-> head, v |-> head]

\* Block.forward : returns x, x_att, q, k, v
Block(x) ==
    LET a == Attention(x)
        x1 == Broadcast(x, a.x)
        x2 == Broadcast(x1, Linear(Linear(x1, embed_dim, embed_dim * 4), embed_dim * 4, embed_dim))
    IN [x |-> x2, x_att |-> a.x, q |-> a.q, k |-> a.k, v |-> a.v]

\* ConvBlock.forward : returns x and the reduced-width intermediate x2
ConvBlock(x, x_t, inplanes, outplanes, stride, res_conv) ==
    LET med_planes == outplanes \div expansion
        c1 == Conv2d(x, inplanes, med_planes, 1, 1, 0)
        x2 == Conv2d(IF x_t = None THEN c1 ELSE Broadcast(c1, x_t), med_planes, med_planes, 3, stride, 1)
        c3 == Conv2d(x2, med_planes, outplanes, 1, 1, 0)
        residual == IF res_conv THEN Conv2d(x, inplanes, outplanes, 1, stride, 0) ELSE x
    IN [x |-> AddInPlace(c3, residual), x2 |-> x2]

\* FCUDown.forward : CNN feature map -> patch embeddings, cls slot of x_t first
FCUDown(x, x_t, inplanes, dw_stride) ==
    LET proj == Conv2d(x, inplanes, embed_dim, 1, 1, 0)
        seq == Linear(FlattenT(Pool2d(proj, dw_stride, dw_stride, 0)), embed_dim, embed_dim)
    IN Cat1(ClsSlot(x_t), seq)

\* FCUUp.forward : patch embeddings -> CNN feature map of side H up_stride
FCUUp(x, H, W, outplanes, up_stride) ==
    LET x_r == Conv2d(TokensToGrid(x, H, W), embed_dim, outplanes, 1, 1, 0)
    IN Interpolate(x_r, H * up_stride, W * up_stride)

\* ConvTransBlock.forward : returns x, x_att, x_t, q, k, v; fail names the
\* first sub-module that raised ("" when none did)
ConvTransBlock(cfg, x, x_t) ==
    LET cb == ConvBlock(x, None, cfg.inplanes, cfg.outplanes, cfg.stride, cfg.res_conv)
        H == IF cb.x2 = Err THEN 0 ELSE cb.x2[3]
        W == IF cb.x2 = Err THEN 0 ELSE cb.x2[4]
        x_st == FCUDown(cb.x2, x_t, cfg.outplanes \div expansion, cfg.dw_stride)
        tb == Block(Broadcast(x_st, x_t))
        x_t_r == FCUUp(tb.x, H \div cfg.dw_stride, W \div cfg.dw_stride,
                       cfg.outplanes \div expansion, cfg.dw_stride)
        fb == ConvBlock(cb.x, x_t_r, cfg.outplanes, cfg.outplanes,
                        IF cfg.last_fusion THEN 2 ELSE 1, cfg.last_fusion)
    IN [x |-> fb.x, x_att |-> tb.x_att, x_t |-> tb.x, q |-> tb.q, k |-> tb.k, v |-> tb.v,
        fail |-> IF cb.x = Err THEN "cnn_block"
                 ELSE IF x_st = Err THEN "squeeze_block"
                 ELSE IF tb.x = Err THEN "trans_block"
                 ELSE IF x_t_r = Err THEN "expand_block"
                 ELSE IF fb.x = Err THEN "fusion_block"
                 ELSE ""]

\* ------------------------------------------------ Conformer.__init__
stage_1_channel == base_channel * channel_ratio
stage_2_channel == base_channel * channel_ratio * 2
stage_3_channel == base_channel * channel_ratio * 2 * 2
trans_dw_stride == patch_size \div 4

\* the assert left out
AssertDepthMut(d) == TRUE

\* assert depth % 3 == 0
AssertDepth(d) == d % 3 = 0

\* fin_stage after the three registration loops
FinStage(d) == (d \div 3 + 1) + d \div 3 + d \div 3

\* the second group registered with the first group's dw_stride
StageCfgMut(i, d) ==
    LET fin1 == d \div 3 + 1
        fin2 == fin1 + d \div 3
    IN IF i < fin1
       THEN [inplanes |-> stage_1_channel, outplanes |-> stage_1_channel, res_conv |-> FALSE,
             stride |-> 1, dw_stride |-> trans_dw_stride, last_fusion |-> FALSE]
       ELSE IF i < fin2
       THEN [inplanes |-> IF i = fin1 THEN stage_1_channel ELSE stage_2_channel,
             outplanes |-> stage_2_channel, res_conv |-> i = fin1,
             stride |-> IF i = fin1 THEN 2 ELSE 1,
             dw_stride |-> trans_dw_stride, last_fusion |-> FALSE]
       ELSE [inplanes |-> IF i = fin2 THEN stage_2_channel ELSE stage_3_channel,
             outplanes |-> stage_3_channel, res_conv |-> i = fin2,
             stride |-> IF i = fin2 THEN 2 ELSE 1,
             dw_stride |-> trans_dw_stride \div 4, last_fusion |-> i = d]

\* the ConvTransBlock registered as conv_trans_i
StageCfg(i, d) ==
    LET fin1 == d \div 3 + 1
        fin2 == fin1 + d \div 3
    IN IF i < fin1
       THEN [inplanes |-> stage_1_channel, outplanes |-> stage_1_channel, res_conv |-> FALSE,
             stride |-> 1, dw_stride |-> trans_dw_stride, last_fusion |-> FALSE]
       ELSE IF i < fin2
       THEN [inplanes |-> IF i = fin1 THEN stage_1_channel ELSE stage_2_channel,
             outplanes |-> stage_2_channel, res_conv |-> i = fin1,
             stride |-> IF i = fin1 THEN 2 ELSE 1,
             dw_stride |-> trans_dw_stride \div 2, last_fusion |-> FALSE]
       ELSE [inplanes |-> IF i = fin2 THEN stage_2_channel ELSE stage_3_channel,
             outplanes |-> stage_3_channel, res_conv |-> i = fin2,
             stride |-> IF i = fin2 THEN 2 ELSE 1,
             dw_stride |-> trans_dw_stride \div 4, last_fusion |-> i = d]

\* ------------------------------------------------------------- state
VARIABLES
    pc,                 \* position in build_model / JL_DCF.forward
    depth,              \* Conformer(depth=...)
    built,              \* stage numbers whose modules __init__ has registered
    stages,             \* conv_trans_i  ->  its configuration
    fin_stage,          \* self.fin_stage
    f_all, f1_all,      \* the two images handed to JL_DCF.forward
    x, y_t, i,          \* Conformer.forward locals
    conv_features, tran_features, q, k, v, x_att,
    lde_c, lde_t,       \* LDELayer.forward results
    coarse_sal_rgb, coarse_sal_depth,
    rgb_h, rgb_m, depth_h, depth_m, gde_js, gde_log,
    dec,                \* Decoder.forward locals and its returned tuple
    out,                \* what JL_DCF.forward returned
    err,                \* where forward raised
    state_dict,         \* self.backbone.state_dict() : name -> value
    init_dict,          \* the backbone parameters as initialized
    pretrained_dict,    \* torch.load(model_path) : name -> value
    once_dict,          \* the backbone parameters after the first load
    loads,              \* completed calls of load_pretrained_model
    load_raised,        \* a call of load_pretrained_model raised
    up_rgb, up_depth,   \* one element of the upsampled coarse saliency maps
    Ar, Ad,             \* the gate elements computed from them
    gate_pc,            \* position in the GDE loop (value level)
    sm_q, sm_y, sm_k,   \* q[j], list_y[j], k[j] of one batch element : [token][channel]
    sm_gate,            \* softmax((q[j]*list_y[j])*k[j]) of that element
    sm_pc               \* position in LDELayer.forward (value level)

ctorVars == <<depth, built, stages, fin_stage>>
encVars == <<x, y_t, i, conv_features, tran_features, q, k, v, x_att>>
headVars == <<lde_c, lde_t, coarse_sal_rgb, coarse_sal_depth>>
gdeVars == <<rgb_h, rgb_m, depth_h, depth_m, gde_js, gde_log>>
fwdVars == <<pc, ctorVars, f_all, f1_all, encVars, headVars, gdeVars, dec, out, err>>
loadVars == <<state_dict, init_dict, pretrained_dict, once_dict, loads, load_raised>>
gateVars == <<up_rgb, up_depth, Ar, Ad, gate_pc>>
smVars == <<sm_q, sm_y, sm_k, sm_gate, sm_pc>>

NoErr == [site |-> "", stage |-> -1]
NoDec == [rgb_l |-> Err, depth_l |-> Err, up_high |-> Err, up_med |-> Err, ret |-> <<>>]
NoOut == [sal_final |-> Err, sal_low |-> Err, sal_med |-> Err, sal_high |-> Err,
          coarse_sal_rgb |-> Err, coarse_sal_depth |-> Err, Att |-> <<>>]

\* python list[j]
Has(list, j) == j + 1 \in DOMAIN list
At(list, j) == list[j + 1]
Entry(shape, stage, kind) == [shape |-> shape, stage |-> stage, kind |-> kind]

InitFwd ==
    /\ pc = "new"
    /\ depth \in Depths
    /\ built = {}
    /\ stages = <<>>
    /\ fin_stage = 0
    /\ f_all \in ImageShapes
    /\ f1_all \in ImageShapes
    /\ x = Err /\ y_t = Err /\ i = 0
    /\ conv_features = <<>> /\ tran_features = <<>>
    /\ q = <<>> /\ k = <<>> /\ v = <<>> /\ x_att = <<>>
    /\ lde_c = Err /\ lde_t = Err
    /\ coarse_sal_rgb = Err /\ coarse_sal_depth = Err
    /\ rgb_h = Err /\ rgb_m = Err /\ depth_h = Err /\ depth_m = Err
    /\ gde_js = <<>> /\ gde_log = <<>>
    /\ dec = NoDec
    /\ out = NoOut
    /\ err = NoErr

Raise(site, stage) ==
    /\ pc' = "error"
    /\ err' = [site |-> site, stage |-> stage]

\* build_model -> Conformer.__init__ : the assert, then the stem, stage 1 and
\* the three groups of conv_trans_i
Construct ==
    /\ pc = "new"
    /\ IF ~AssertDepth(depth)
       THEN /\ pc' = "rejected"
            /\ UNCHANGED <<built, stages, fin_stage>>
       ELSE /\ pc' = "built"
            /\ built' = {0, 1} \cup (2..(FinStage(depth) - 1))
            /\ stages' = [n \in 2..(FinStage(depth) - 1) |-> StageCfg(n, depth)]
            /\ fin_stage' = FinStage(depth)
    /\ UNCHANGED <<depth, f_all, f1_all, encVars, headVars, gdeVars, dec, out, err, loadVars, gateVars, smVars>>

\* Conformer.forward, stem : conv1 / bn1 / act1 / maxpool on both images
StemOf(img) == Pool2d(Conv2d(img, in_chans, 64, 7, 2, 3), 3, 2, 1)

Stem ==
    /\ pc = "built"
    /\ LET x_base == StemOf(f_all)
           y_base == StemOf(f1_all)
       IN IF x_base = Err \/ y_base = Err
          THEN /\ Raise("stem", 0)
               /\ UNCHANGED encVars
          ELSE /\ pc' = "stage1"
               /\ x' = x_base
               /\ y_t' = y_base
               /\ conv_features' = Append(conv_features, Entry(x_base, 0, "stem"))
               /\ tran_features' = Append(tran_features, Entry(y_base, 0, "stem"))
               /\ UNCHANGED <<i, q, k, v, x_att, err>>
    /\ UNCHANGED <<ctorVars, f_all, f1_all, headVars, gdeVars, dec, out, loadVars, gateVars, smVars>>

\* Conformer.forward, stage 1 : conv_1 on the rgb stem map; trans_patch_conv,
\* cls token and trans_1 on the depth stem map
Stage1 ==
    /\ pc = "stage1"
    /\ LET B == f1_all[1]
           cls_tokens == <<B, 1, embed_dim>>
           x1 == ConvBlock(x, None, 64, stage_1_channel, 1, TRUE).x
           y_p == FlattenT(Conv2d(y_t, 64, embed_dim, trans_dw_stride, trans_dw_stride, 0))
           tb == Block(Cat1(cls_tokens, y_p))
       IN IF x1 = Err \/ tb.x = Err
          THEN /\ Raise("stage1", 1)
               /\ UNCHANGED encVars
          ELSE /\ pc' = IF 2 < fin_stage THEN "encoder" ELSE "lde"
               /\ x' = x1
               /\ y_t' = tb.x
               /\ i' = 2
               /\ conv_features' = Append(conv_features, Entry(x1, 1, "conv"))
               /\ tran_features' = Append(Append(tran_features, Entry(y_p, 1, "patch")),
                                          Entry(tb.x, 1, "tokens"))
               /\ q' = Append(q, Entry(tb.q, 1, "q"))
               /\ k' = Append(k, Entry(tb.k, 1, "k"))
               /\ v' = Append(v, Entry(tb.v, 1, "v"))
               /\ x_att' = Append(x_att, Entry(tb.x_att, 1, "att"))
               /\ err' = err
    /\ UNCHANGED <<ctorVars, f_all, f1_all, headVars, gdeVars, dec, out, loadVars, gateVars, smVars>>

\* Conformer.forward, one turn of  for i in range(2, self.fin_stage)
ConvTrans ==
    /\ pc = "encoder"
    /\ i < fin_stage
    /\ LET r == ConvTransBlock(stages[i], x, y_t)
       IN IF r.fail # ""
          THEN /\ Raise(r.fail, i)
               /\ UNCHANGED encVars
          ELSE /\ pc' = IF i + 1 < fin_stage THEN "encoder" ELSE "lde"
               /\ x' = r.x
               /\ y_t' = r.x_t
               /\ i' = i + 1
               /\ conv_features' = Append(conv_features, Entry(r.x, i, "conv"))
               /\ tran_features' = Append(tran_features, Entry(r.x_t, i, "tokens"))
               /\ q' = Append(q, Entry(r.q, i, "q"))
               /\ k' = Append(k, Entry(r.k, i, "k"))
               /\ v' = Append(v, Entry(r.v, i, "v"))
               /\ x_att' = Append(x_att, Entry(r.x_att, i, "att"))
               /\ err' = err
    /\ UNCHANGED <<ctorVars, f_all, f1_all, headVars, gdeVars, dec, out, loadVars, gateVars, smVars>>

\* t.permute(0, 2, 1, 3).flatten(2) : [B, heads, N, d] -> [B, N, heads d]
PermFlat(t) ==
    IF Len(t) # 4 THEN Err ELSE <<t[1], t[3], t[2] * t[4]>>

\* LDELayer.conv_rgb : MaxPool2d(3), Conv2d(256, 64, 7, 1, 1), Conv2d(64, 64, 5, 1, 1)
ConvRgb(t) == Conv2d(Conv2d(Pool2d(t, 3, 3, 0), 256, 64, 7, 1, 1), 64, 64, 5, 1, 1)

\* LDELayer.forward with j = 4 : q[j], k[j], v[j] are replaced in the lists
LDE ==
    /\ pc = "lde"
    /\ LET j == LdeStage
       IN IF ~(Has(conv_features, j) /\ Has(tran_features, j) /\ Has(q, j))
          THEN /\ Raise("lde.index", j)
               /\ UNCHANGED <<q, k, v, lde_c, lde_t>>
          ELSE LET list_x == At(conv_features, j).shape
                   list_y == At(tran_features, j).shape
                   pooled == FlattenT(Pool2d(Conv2d(list_x, 256, embed_dim, 1, 1, 0), 4, 4, 0))
                   fconv_c == Cat1(ClsSlot(list_y), pooled)
                   qj == PermFlat(At(q, j).shape)
                   kj == PermFlat(At(k, j).shape)
                   vj == PermFlat(At(v, j).shape)
                   gate == Broadcast(Broadcast(qj, list_y), kj)
                   depth_lde == Broadcast(fconv_c, Broadcast(gate, vj))
                   rgb_lde == ConvRgb(list_x)
               IN /\ IF fconv_c = Err
                     THEN UNCHANGED <<q, k, v>>
                     ELSE /\ q' = [q EXCEPT ![j + 1].shape = qj]
                          /\ k' = [k EXCEPT ![j + 1].shape = kj]
                          /\ v' = [v EXCEPT ![j + 1].shape = vj]
                  /\ IF depth_lde = Err \/ rgb_lde = Err
                     THEN /\ Raise("lde", j)
                          /\ UNCHANGED <<lde_c, lde_t>>
                     ELSE /\ pc' = "coarse"
                          /\ lde_c' = rgb_lde
                          /\ lde_t' = depth_lde
                          /\ err' = err
    /\ UNCHANGED <<ctorVars, f_all, f1_all, x, y_t, i, conv_features, tran_features, x_att,
                   coarse_sal_rgb, coarse_sal_depth, gdeVars, dec, out, loadVars, gateVars, smVars>>

\* conv_d with stride 1 instead of 2
CoarseLayerMut(cx, cy) ==
    LET y_r == IF Len(cx) # 4 THEN Err ELSE TokensToGrid(cy, cx[3] * 2, cx[4] * 2)
    IN [sal_rgb |-> IF y_r = Err THEN Err ELSE Conv2d(cx, 1024, 1, 1, 1, 0),
        sal_depth |-> Conv2d(y_r, embed_dim, 1, 3, 1, 1)]

\* CoarseLayer.forward
CoarseLayer(cx, cy) ==
    LET y_r == IF Len(cx) # 4 THEN Err ELSE TokensToGrid(cy, cx[3] * 2, cx[4] * 2)
    IN [sal_rgb |-> IF y_r = Err THEN Err ELSE Conv2d(cx, 1024, 1, 1, 1, 0),
        sal_depth |-> Conv2d(y_r, embed_dim, 1, 3, 2, 1)]

\* JL_DCF.forward : self.coarse_layer(x[12], y[12])
Coarse ==
    /\ pc = "coarse"
    /\ IF ~(Has(conv_features, CoarseStage) /\ Has(tran_features, CoarseStage))
       THEN /\ Raise("coarse.index", CoarseStage)
            /\ UNCHANGED <<coarse_sal_rgb, coarse_sal_depth>>
       ELSE LET c == CoarseLayer(At(conv_features, CoarseStage).shape,
                                 At(tran_features, CoarseStage).shape)
            IN IF c.sal_rgb = Err \/ c.sal_depth = Err
               THEN /\ Raise("coarse", CoarseStage)
                    /\ UNCHANGED <<coarse_sal_rgb, coarse_sal_depth>>
               ELSE /\ pc' = "gde"
                    /\ coarse_sal_rgb' = c.sal_rgb
                    /\ coarse_sal_depth' = c.sal_depth
                    /\ err' = err
    /\ UNCHANGED <<ctorVars, f_all, f1_all, encVars, lde_c, lde_t, gdeVars, dec, out, loadVars, gateVars, smVars>>

\* range(11, 7, -1)
GdeRangeMut == <<11, 10, 9, 8>>

\* range(11, 7, -3)
GdeRange == <<11, 8>>

\* the accumulators allocated for a batch of one
GDEInitMut ==
    /\ pc = "gde"
    /\ pc' = "gde_loop"
    /\ rgb_h' = <<1, 1, GdeGrid, GdeGrid>>
    /\ rgb_m' = <<1, 1, GdeGridMed, GdeGridMed>>
    /\ depth_h' = <<1, 1, GdeGrid, GdeGrid>>
    /\ depth_m' = <<1, 1, GdeGridMed, GdeGridMed>>
    /\ gde_js' = GdeRange
    /\ gde_log' = <<>>
    /\ UNCHANGED <<ctorVars, f_all, f1_all, encVars, headVars, dec, out, err, loadVars, gateVars, smVars>>

\* GDELayer.forward, the four zero accumulators
GDEInit ==
    /\ pc = "gde"
    /\ pc' = "gde_loop"
    /\ rgb_h' = <<coarse_sal_rgb[1], 1, GdeGrid, GdeGrid>>
    /\ rgb_m' = <<coarse_sal_rgb[1], 1, GdeGridMed, GdeGridMed>>
    /\ depth_h' = <<coarse_sal_rgb[1], 1, GdeGrid, GdeGrid>>
    /\ depth_m' = <<coarse_sal_rgb[1], 1, GdeGridMed, GdeGridMed>>
    /\ gde_js' = GdeRange
    /\ gde_log' = <<>>
    /\ UNCHANGED <<ctorVars, f_all, f1_all, encVars, headVars, dec, out, err, loadVars, gateVars, smVars>>

\* GDELayer.forward, one turn of the loop over j
GDEIter ==
    /\ pc = "gde_loop"
    /\ gde_js # <<>>
    /\ LET j == Head(gde_js)
           next_pc == IF Tail(gde_js) = <<>> THEN "decoder" ELSE "gde_loop"
       IN IF ~(Has(conv_features, j) /\ Has(tran_features, j))
          THEN /\ Raise("gde.index", j)
               /\ UNCHANGED gdeVars
          ELSE LET rgb_part == At(conv_features, j).shape
                   depth_part == At(tran_features, j).shape
                   grid == TokensToGrid(depth_part, GdeGrid, GdeGrid)
                   high == rgb_part[2] = 1024
                   rgb_p == IF high THEN Conv2d(rgb_part, 1024, 1, 1, 1, 0)
                                    ELSE Conv2d(rgb_part, 512, 1, 1, 1, 0)
                   sal_rgb1 == IF high THEN ConvTranspose2d(coarse_sal_rgb, 1, 1, 4, 2, 1, 0)
                                       ELSE ConvTranspose2d(coarse_sal_rgb, 1, 1, 4, 4, 0, 0)
                   sal_depth1 == IF high THEN ConvTranspose2d(coarse_sal_depth, 1, 1, 4, 2, 1, 0)
                                         ELSE ConvTranspose2d(coarse_sal_depth, 1, 1, 4, 4, 0, 0)
                   y_r == IF high THEN Conv2d(grid, embed_dim, 1, 1, 1, 0)
                                  ELSE ConvTranspose2d(grid, embed_dim, 1, 4, 2, 1, 0)
                   ArShape == sal_rgb1
                   AdShape == sal_depth1
                   acc_r == AddInPlace(IF high THEN rgb_h ELSE rgb_m, Broadcast(ArShape, rgb_p))
                   acc_d == AddInPlace(IF high THEN depth_h ELSE depth_m, Broadcast(AdShape, y_r))
               IN IF Len(depth_part) # 3 \/ acc_r = Err \/ acc_d = Err
                  THEN /\ Raise("gde", j)
                       /\ UNCHANGED gdeVars
                  ELSE /\ pc' = next_pc
                       /\ rgb_h' = IF high THEN acc_r ELSE rgb_h
                       /\ depth_h' = IF high THEN acc_d ELSE depth_h
                       /\ rgb_m' = IF high THEN rgb_m ELSE acc_r
                       /\ depth_m' = IF high THEN depth_m ELSE acc_d
                       /\ gde_js' = Tail(gde_js)
                       /\ gde_log' = Append(gde_log, [j |-> j, bucket |-> IF high THEN "high" ELSE "medium"])
                       /\ err' = err
    /\ UNCHANGED <<ctorVars, f_all, f1_all, encVars, headVars, dec, out, loadVars, gateVars, smVars>>

\* up2 with kernel_size=3
Up2Mut(t) == ConvTranspose2d(t, 1, 1, 3, 2, 1, 0)

\* Decoder.up2 : ConvTranspose2d(1, 1, kernel_size=4, stride=2, padding=1)
Up2(t) == ConvTranspose2d(t, 1, 1, 4, 2, 1, 0)

\* Decoder.forward : its locals, and ret, the tuple it returns
DecoderFwd(c, t, rh, rm, dh, dm) ==
    LET sal_high == Broadcast(rh, dh)
        sal_med == Broadcast(rm, dm)
        rgb_l == ConvTranspose2d(c, 64, 1, 3, 4, 1, 3)
        depth_l == ConvTranspose2d(TokensToGrid(t, 20, 20), embed_dim, 1, 3, 4, 1, 3)
        sal_low == Broadcast(rgb_l, depth_l)
        up_high == Up2(sal_high)
        up_med == Up2(Broadcast(sal_med, up_high))
        sal_final == Up2(Up2(Broadcast(sal_low, up_med)))
    IN [sal_final |-> sal_final, sal_low |-> sal_low, sal_med |-> sal_med, sal_high |-> sal_high,
        rgb_l |-> rgb_l, depth_l |-> depth_l, up_high |-> up_high, up_med |-> up_med,
        ret |-> <<sal_final, sal_low, sal_med, sal_high>>]

\* JL_DCF.forward : the decoder call, the unpacking of its tuple and the
\* return statement
Decoder ==
    /\ pc = "decoder"
    /\ LET d == DecoderFwd(lde_c, lde_t, rgb_h, rgb_m, depth_h, depth_m)
       IN IF d.sal_final = Err
          THEN /\ Raise("decoder", -1)
               /\ out' = out
               /\ dec' = dec
          ELSE /\ pc' = "done"
               /\ dec' = [rgb_l |-> d.rgb_l, depth_l |-> d.depth_l,
                          up_high |-> d.up_high, up_med |-> d.up_med, ret |-> d.ret]
               /\ out' = [sal_final |-> d.ret[1], sal_low |-> d.ret[2],
                          sal_med |-> d.ret[3], sal_high |-> d.ret[4],
                          coarse_sal_rgb |-> coarse_sal_rgb,
                          coarse_sal_depth |-> coarse_sal_depth,
                          Att |-> [n \in DOMAIN x_att |-> x_att[n].shape]]
               /\ err' = err
    /\ UNCHANGED <<ctorVars, f_all, f1_all, encVars, headVars, gdeVars, loadVars, gateVars, smVars>>

vars == <<fwdVars, loadVars, gateVars, smVars>>

\* ------------------------------ JLModule.load_pretrained_model (values)
MaxValue == 1
MaxLoads == 2

\* parameter names of the backbone, and names only a checkpoint has
ModelKeys == {"cls_token", "conv1.weight", "trans_1.attn.qkv.bias"}
OtherKeys == {"fc.weight", "module.conv1.weight"}
Values == 0..MaxValue

Dicts(keys) == UNION {[S -> Values] : S \in SUBSET keys}

\* the name filter left out
FilterKnownMut(pd, md) == pd

\* {ka: va for ka, va in pretrained_dict.items() if ka in model_dict}
FilterKnown(pd, md) == [ka \in {n \in DOMAIN pd : n \in DOMAIN md} |-> pd[ka]]

\* the supplied value added to the present one instead of replacing it
DictUpdateMut(md, pd) ==
    [n \in DOMAIN md \cup DOMAIN pd |->
        IF n \in DOMAIN pd
        THEN (IF n \in DOMAIN md THEN (md[n] + pd[n]) % (MaxValue + 1) ELSE pd[n])
        ELSE md[n]]

\* model_dict.update(pretrained_dict)
DictUpdate(md, pd) ==
    [n \in DOMAIN md \cup DOMAIN pd |-> IF n \in DOMAIN pd THEN pd[n] ELSE md[n]]

\* backbone.load_state_dict(sd), strict : copies every entry whose name is a
\* parameter, raises when the names of sd are not exactly the parameter names
LoadStateDict(params, sd) ==
    [params |-> [n \in DOMAIN params |-> IF n \in DOMAIN sd THEN sd[n] ELSE params[n]],
     raised |-> DOMAIN sd # DOMAIN params]

InitLoad ==
    /\ init_dict \in [ModelKeys -> Values]
    /\ state_dict = init_dict
    /\ once_dict = init_dict
    /\ pretrained_dict \in Dicts(ModelKeys \cup OtherKeys)
    /\ loads = 0
    /\ load_raised = FALSE

IdleLoad ==
    /\ init_dict = <<>> /\ state_dict = <<>> /\ once_dict = <<>>
    /\ pretrained_dict = <<>>
    /\ loads = 0
    /\ load_raised = FALSE

load_pretrained_model ==
    /\ loads < MaxLoads
    /\ ~load_raised
    /\ LET model_dict == state_dict
           known == FilterKnown(pretrained_dict, model_dict)
           r == LoadStateDict(state_dict, DictUpdate(model_dict, known))
       IN /\ state_dict' = r.params
          /\ load_raised' = r.raised
          /\ once_dict' = IF loads = 0 THEN r.params ELSE once_dict
    /\ loads' = loads + 1
    /\ UNCHANGED <<init_dict, pretrained_dict, fwdVars, gateVars, smVars>>

\* ------------------------------------- GDELayer.forward gates (values)
\* A value is a fixed-point number with FracBits fractional bits; the
\* upsampled coarse saliency u stands for the logit u ln 2, u in
\* -MaxLogit..MaxLogit, so that sigmoid(u ln 2) = 2^u / (1 + 2^u) is rational.
FracBits == 8
MaxLogit == 12

RECURSIVE Pow2(_)
Pow2(n) == IF n = 0 THEN 1 ELSE 2 * Pow2(n - 1)

One == Pow2(FracBits)

\* p / d rounded to the nearest integer
RoundDiv(p, d) == (2 * p + d) \div (2 * d)

\* nn.Sigmoid on one element
Sigmoid(u) ==
    IF u >= 0 THEN RoundDiv(One * Pow2(u), Pow2(u) + 1)
    ELSE RoundDiv(One, 1 + Pow2(-u))

\* the complement of the raw logit, the sigmoid left out
GateMut(u) == One - One * u

\* Ar = 1 - salr, Ad = 1 - sald
Gate(u) == One - Sigmoid(u)

Logits == (-MaxLogit)..MaxLogit

InitGate ==
    /\ up_rgb \in Logits
    /\ up_depth \in Logits
    /\ Ar = <<>> /\ Ad = <<>>
    /\ gate_pc = "j11"

IdleGate ==
    /\ up_rgb = 0 /\ up_depth = 0
    /\ Ar = <<>> /\ Ad = <<>>
    /\ gate_pc = "idle"

\* the branch  rgb_part.size(1) == 1024  (j = 11)
GateHigh ==
    /\ gate_pc = "j11"
    /\ Ar' = Append(Ar, Gate(up_rgb))
    /\ Ad' = Append(Ad, Gate(up_depth))
    /\ gate_pc' = "j8"
    /\ UNCHANGED <<up_rgb, up_depth, fwdVars, loadVars, smVars>>

\* the else branch (j = 8); the learned upsampling gives a new element
GateMedium ==
    /\ gate_pc = "j8"
    /\ \E ur \in Logits, ud \in Logits :
          /\ up_rgb' = ur
          /\ up_depth' = ud
          /\ Ar' = Append(Ar, Gate(ur))
          /\ Ad' = Append(Ad, Gate(ud))
    /\ gate_pc' = "returned"
    /\ UNCHANGED <<fwdVars, loadVars, smVars>>

\* ------------------------------- LDELayer.forward softmax gate (values)
\* One batch element of a [batch, tokens, embed_dim] tensor is a function
\* [token -> [channel -> value]]; torch dim 1 is the token axis, dim 2 the
\* embedding axis.  A value v stands for the logit v ln 2, so that the softmax
\* weights 2^v are integers and every softmax output is a fraction num / den.
NumTok == 2
NumEmb == 2
MaxElem == 1

\* self.softmax = nn.Softmax(dim=1)
softmax_dim == 1

Toks == 1..NumTok
Embs == 1..NumEmb
Tensors == [Toks -> [Embs -> 0..MaxElem]]

\* element-wise product
Mul(a, b) == [n \in Toks |-> [c \in Embs |-> a[n][c] * b[n][c]]]

RECURSIVE SumW(_, _)
SumW(f, n) == IF n = 0 THEN 0 ELSE f[n] + SumW(f, n - 1)

\* nn.Softmax(dim) on one batch element
Softmax(t, dim) ==
    LET w == [n \in Toks |-> [c \in Embs |-> Pow2(t[n][c])]]
    IN [n \in Toks |-> [c \in Embs |->
          [num |-> w[n][c],
           den |-> IF dim = 1 THEN SumW([m \in Toks |-> w[m][c]], NumTok)
                              ELSE SumW(w[n], NumEmb)]]]

\* self.softmax(...)
LdeSoftmax(t) == Softmax(t, softmax_dim)

InitSm ==
    /\ sm_q \in Tensors
    /\ sm_y \in Tensors
    /\ sm_k \in Tensors
    /\ sm_gate = <<>>
    /\ sm_pc = "lde"

IdleSm ==
    /\ sm_q = <<>> /\ sm_y = <<>> /\ sm_k = <<>>
    /\ sm_gate = <<>>
    /\ sm_pc = "idle"

\* self.softmax((q[j]*list_y[j])*k[j])
LdeGate ==
    /\ sm_pc = "lde"
    /\ sm_gate' = LdeSoftmax(Mul(Mul(sm_q, sm_y), sm_k))
    /\ sm_pc' = "gated"
    /\ UNCHANGED <<sm_q, sm_y, sm_k, fwdVars, loadVars, gateVars>>

\* -------------------------------------------------------- specifications
IdleFwd ==
    /\ pc = "idle"
    /\ depth = RefDepth
    /\ built = {} /\ stages = <<>> /\ fin_stage = 0
    /\ f_all = Err /\ f1_all = Err
    /\ x = Err /\ y_t = Err /\ i = 0
    /\ conv_features = <<>> /\ tran_features = <<>>
    /\ q = <<>> /\ k = <<>> /\ v = <<>> /\ x_att = <<>>
    /\ lde_c = Err /\ lde_t = Err
    /\ coarse_sal_rgb = Err /\ coarse_sal_depth = Err
    /\ rgb_h = Err /\ rgb_m = Err /\ depth_h = Err /\ depth_m = Err
    /\ gde_js = <<>> /\ gde_log = <<>>
    /\ dec = NoDec
    /\ out = NoOut
    /\ err = NoErr

Init == InitFwd /\ IdleLoad /\ IdleGate /\ IdleSm

Next ==
    \/ Construct
    \/ Stem
    \/ Stage1
    \/ ConvTrans
    \/ LDE
    \/ Coarse
    \/ GDEInit
    \/ GDEIter
    \/ Decoder

Spec == Init /\ [][Next]_vars

InitLoadSpec == IdleFwd /\ InitLoad /\ IdleGate /\ IdleSm

NextLoad == load_pretrained_model

SpecLoad == InitLoadSpec /\ [][NextLoad]_vars

InitGateSpec == IdleFwd /\ IdleLoad /\ InitGate /\ IdleSm

NextGate ==
    \/ GateHigh
    \/ GateMedium

SpecGate == InitGateSpec /\ [][NextGate]_vars

InitSmSpec == IdleFwd /\ IdleLoad /\ IdleGate /\ InitSm

NextSm == LdeGate

SpecSoftmax == InitSmSpec /\ [][NextSm]_vars

\* ---------------------------------------------------------------- claims
CumStride == 4 * 2 * 2 * 2

Reference == depth = RefDepth
SameImages == f_all = f1_all
Divisible(img) == img[3] % CumStride = 0 /\ img[4] % CumStride = 0
RefSize(img) == img[3] = image_size /\ img[4] = image_size
Started == pc \notin {"new", "built", "rejected", "idle"}
EncoderReturned == pc \in {"lde", "coarse", "gde", "gde_loop", "decoder", "done"}

\* C1: for every resolution H x W divisible by the cumulative stride 32, both
\* images at that resolution, forward completes and final_saliency is
\* [B, 1, H, W].
C1_AnyResolution ==
    (Reference /\ SameImages /\ Divisible(f_all)) =>
        /\ pc # "error"
        /\ pc = "done" => out.sal_final = <<f_all[1], 1, f_all[3], f_all[4]>>

\* C2: when the encoder has returned, the conv list and the token list have
\* the same length, and that length is 1 + depth.
C2_EqualLength ==
    EncoderReturned =>
        /\ Len(conv_features) = Len(tran_features)
        /\ Len(conv_features) = 1 + depth

\* C3 as stated: reference configuration, batch 1, 320 x 320: final_saliency is
\* [1,1,320,320] and both coarse maps are [1,1,20,20].
C3_Coarse20 ==
    (Reference /\ SameImages /\ RefSize(f_all) /\ f_all[1] = 1) =>
        /\ pc # "error"
        /\ pc = "done" =>
              /\ out.sal_final = <<1, 1, 320, 320>>
              /\ out.coarse_sal_rgb = <<1, 1, 20, 20>>
              /\ out.coarse_sal_depth = <<1, 1, 20, 20>>

\* C3 amended: reference configuration, batch 1, 320 x 320: forward returns
\* final_saliency [1,1,320,320] and both coarse maps [1,1,10,10].
C3_Coarse10 ==
    (Reference /\ SameImages /\ RefSize(f_all) /\ f_all[1] = 1) =>
        /\ pc # "error"
        /\ pc = "done" =>
              /\ out.sal_final = <<1, 1, 320, 320>>
              /\ out.coarse_sal_rgb = <<1, 1, 10, 10>>
              /\ out.coarse_sal_depth = <<1, 1, 10, 10>>

C3_Witness ==
    /\ pc = "done" /\ Reference /\ SameImages /\ RefSize(f_all) /\ f_all[1] = 1
    /\ out.coarse_sal_depth = <<1, 1, 10, 10>>

\* what forward returns for a batch of B reference images
RefOut(B) ==
    [sal_final |-> <<B, 1, image_size, image_size>>,
     sal_low |-> <<B, 1, image_size \div 4, image_size \div 4>>,
     sal_med |-> <<B, 1, image_size \div 8, image_size \div 8>>,
     sal_high |-> <<B, 1, image_size \div 16, image_size \div 16>>,
     coarse_sal_rgb |-> <<B, 1, image_size \div 32, image_size \div 32>>,
     coarse_sal_depth |-> <<B, 1, image_size \div 32, image_size \div 32>>,
     Att |-> [n \in 1..RefDepth |->
                <<B, 1 + (image_size \div patch_size) * (image_size \div patch_size), embed_dim>>]]

BadInput == ~SameImages \/ ~RefSize(f_all)

C5_FailFast ==
    (Reference /\ BadInput /\ Started) =>
        /\ pc = "error"
        /\ err.site = "entry"
        /\ conv_features = <<>> /\ tran_features = <<>>

\* C6: a depth not divisible by 3 is rejected by the constructor with no
\* stage registered, and forward never runs on it; a depth divisible by 3 is
\* accepted and its stages are registered.
C6_DepthChecked ==
    pc # "new" =>
        /\ depth % 3 # 0 => (pc = "rejected" /\ built = {} /\ stages = <<>> /\ conv_features = <<>>)
        /\ depth % 3 = 0 => (pc # "rejected" /\ built = 0..depth /\ fin_stage = depth + 1)

C6_Witness ==
    /\ pc = "rejected" /\ depth % 3 # 0 /\ built = {}

\* C7: after load_pretrained_model every backbone parameter a supplied name
\* matches has the supplied value, every other one the value it had, and names
\* that match nothing change nothing and raise nothing.
C7_PartialLoad ==
    loads >= 1 =>
        /\ ~load_raised
        /\ DOMAIN state_dict = DOMAIN init_dict
        /\ \A n \in DOMAIN init_dict :
              state_dict[n] = IF n \in DOMAIN pretrained_dict
                              THEN pretrained_dict[n] ELSE init_dict[n]

C7_Witness ==
    /\ loads = 1
    /\ \E n \in DOMAIN init_dict :
          n \in DOMAIN pretrained_dict /\ pretrained_dict[n] # init_dict[n]
    /\ \E n \in DOMAIN init_dict : n \notin DOMAIN pretrained_dict
    /\ \E n \in DOMAIN pretrained_dict : n \notin DOMAIN init_dict

\* C8: loading the same weight source a second time leaves every parameter
\* as the first load left it.
C8_Idempotent ==
    loads >= 2 => (state_dict = once_dict /\ ~load_raised)

C8_Witness ==
    /\ loads = 2
    /\ state_dict # init_dict
    /\ state_dict = once_dict

\* C9: every gate element Ar, Ad, in both branches, is in [0, 1].
C9_GateRange ==
    /\ \A n \in DOMAIN Ar : 0 <= Ar[n] /\ Ar[n] <= One
    /\ \A n \in DOMAIN Ad : 0 <= Ad[n] /\ Ad[n] <= One

C9_Witness ==
    /\ gate_pc = "returned"
    /\ Ar[1] = 0 /\ Ad[1] = One
    /\ Ar[2] > 0 /\ Ar[2] < One

\* C10: when the encoder has returned, entry n of the conv list and entry n
\* of the token list are both the output of stage n (0 = stem), the token
\* entry of a stage n >= 1 being that stage's token sequence.
C10_Aligned ==
    EncoderReturned =>
        \A n \in DOMAIN conv_features \cap DOMAIN tran_features :
            /\ conv_features[n].stage = n - 1
            /\ tran_features[n].stage = n - 1
            /\ n > 1 => tran_features[n].kind = "tokens"

LdeReturned == pc \in {"coarse", "gde", "gde_loop", "decoder", "done"}
CoarseReturned == pc \in {"gde", "gde_loop", "decoder", "done"}
GdeReturned == pc \in {"decoder", "done"}

\* C11: the entries list_x[4], list_y[4], q[4], k[4], v[4] that
\* LDELayer.forward combines were all produced by one and the same stage.
C11_LdeOneStage ==
    LdeReturned =>
        LET s == At(conv_features, LdeStage).stage
        IN /\ At(tran_features, LdeStage).stage = s
           /\ At(q, LdeStage).stage = s
           /\ At(k, LdeStage).stage = s
           /\ At(v, LdeStage).stage = s

\* C12: the token sequence handed to CoarseLayer is the output of the last
\* encoder stage, the stage whose feature map it is handed.
C12_CoarseDeepest ==
    CoarseReturned =>
        /\ At(conv_features, CoarseStage).stage = depth
        /\ At(tran_features, CoarseStage).stage = depth
        /\ At(tran_features, CoarseStage).kind = "tokens"

\* C14: when forward has returned, every entry of q, k and v is the
\* [batch, heads, num_tokens, head_dim] array the encoder appended.
EncoderQkv(e, n) ==
    /\ Len(e.shape) = 4
    /\ e.shape = <<f1_all[1], num_heads, tran_features[n + 2].shape[2], embed_dim \div num_heads>>

C14_QkvUntouched ==
    pc = "done" =>
        \A n \in DOMAIN q : EncoderQkv(q[n], n) /\ EncoderQkv(k[n], n) /\ EncoderQkv(v[n], n)

\* C15: GDELayer.forward visits 11, then 8; the 1024-channel index adds once
\* to rgb_h and depth_h only, the other index once to rgb_m and depth_m only;
\* the high accumulators are 20 x 20 and the medium ones 40 x 40.
C15_GdeVisits ==
    GdeReturned =>
        /\ gde_log = <<[j |-> 11, bucket |-> "high"], [j |-> 8, bucket |-> "medium"]>>
        /\ At(conv_features, 11).shape[2] = 1024
        /\ At(conv_features, 8).shape[2] # 1024
        /\ rgb_h = <<f_all[1], 1, 20, 20>> /\ depth_h = rgb_h
        /\ rgb_m = <<f_all[1], 1, 40, 40>> /\ depth_m = rgb_m

C15_Witness ==
    /\ pc = "done" /\ Reference /\ SameImages /\ RefSize(f_all)
    /\ Len(gde_log) = 2 /\ gde_js = <<>>

\* number of patch tokens of the depth image
NumPatches == (f1_all[3] \div patch_size) * (f1_all[4] \div patch_size)

\* cells of the pooled conv2 grid of stage n, from the feature map it receives
PooledCells(n) ==
    LET inp == At(conv_features, n - 1).shape
        c == stages[n]
    IN (ConvOut(inp[3], 3, c.stride, 1) \div c.dw_stride)
         * (ConvOut(inp[4], 3, c.stride, 1) \div c.dw_stride)

\* C16: reference configuration, both images at one resolution divisible by
\* 32: no stage 2..depth raises, each receives and emits a sequence of
\* 1 + num_patches tokens of width embed_dim, and its pooled conv grid has
\* num_patches cells.
C16_TokenShape ==
    (Reference /\ SameImages /\ Divisible(f_all) /\ Started) =>
        /\ pc = "error" => err.site \notin {"stem", "stage1", "cnn_block", "squeeze_block",
                                            "trans_block", "expand_block", "fusion_block"}
        /\ \A n \in 3..Len(tran_features) :
              tran_features[n].shape = <<f1_all[1], 1 + NumPatches, embed_dim>>
        /\ \A n \in 2..(Len(conv_features) - 1) : PooledCells(n) = NumPatches
        /\ stages[2].dw_stride = 4 /\ stages[5].dw_stride = 2 /\ stages[9].dw_stride = 1

C16_Witness ==
    /\ Reference /\ SameImages /\ ~RefSize(f_all)
    /\ EncoderReturned
    /\ Len(tran_features) = depth + 2

\* height and width of a [B, C, H, W] shape, times n
Spatial(t, n) == <<n * t[3], n * t[4]>>

\* C17: Decoder.forward adds operands of equal size (rgb_h + depth_h,
\* rgb_m + depth_m, the two upsampled LDE maps, sal_med + up(sal_high),
\* sal_low + up(sal_med + ...)), up doubles height and width, final is 4 x
\* sal_low, and the maps come back in the order final, low, medium, high.
C17_Decoder ==
    /\ (Reference /\ SameImages /\ RefSize(f_all)) => pc # "error"
    /\ pc = "done" =>
          /\ rgb_h = depth_h /\ rgb_m = depth_m /\ dec.rgb_l = dec.depth_l
          /\ dec.ret[4] = rgb_h /\ dec.ret[3] = rgb_m /\ dec.ret[2] = dec.rgb_l
          /\ Spatial(dec.up_high, 1) = Spatial(dec.ret[4], 2)
          /\ dec.up_high = dec.ret[3]
          /\ Spatial(dec.up_med, 1) = Spatial(dec.ret[3], 2)
          /\ dec.up_med = dec.ret[2]
          /\ Spatial(dec.ret[1], 1) = Spatial(dec.ret[2], 4)
          /\ \A n \in 1..4 : dec.ret[n][1] = f_all[1] /\ dec.ret[n][2] = 1
          /\ out.sal_final = dec.ret[1] /\ out.sal_low = dec.ret[2]
          /\ out.sal_med = dec.ret[3] /\ out.sal_high = dec.ret[4]

C17_Witness ==
    /\ pc = "done" /\ Reference /\ SameImages /\ RefSize(f_all)
    /\ Spatial(dec.ret[1], 1) = <<image_size, image_size>>
    /\ Spatial(dec.ret[4], 16) = Spatial(dec.ret[1], 1)

\* sum of fractions
RatAdd(a, b) == [num |-> a.num * b.den + b.num * a.den, den |-> a.den * b.den]

RECURSIVE RatSum(_, _)
RatSum(f, n) == IF n = 0 THEN [num |-> 0, den |-> 1] ELSE RatAdd(RatSum(f, n - 1), f[n])

SumsToOne(f, n) == RatSum(f, n).num = RatSum(f, n).den

\* what nn.Softmax(dim=1) does on [batch, tokens, embed_dim]: for each channel
\* the gate sums to 1 over the tokens
LdeTokenAxis ==
    sm_pc = "gated" =>
        \A c \in Embs : SumsToOne([n \in Toks |-> sm_gate[n][c]], NumTok)

\* C13: the softmax gating the depth branch in LDELayer.forward normalizes
\* over the embedding axis: for each batch element and token, the values of
\* softmax(query * TokenSequence * key) along the embedding axis sum to 1.
C13_EmbeddingAxis ==
    sm_pc = "gated" => \A n \in Toks : SumsToOne(sm_gate[n], NumEmb)

====
